---------------------------- MODULE Spec2Model ----------------------------
(***************************************************************************)
(* Thread-control state machine of effil (src/cpp/threading.cpp).          *)
(*                                                                         *)
(* One worker (Thread::runThread on its own OS thread) and one controller  *)
(* thread that issues the calls of the Thread API one after the other      *)
(* (status, get, wait, cancel, pause, resume), each wait optionally timed. *)
(* The ThreadHandle fields are the shared state; putCommand and            *)
(* changeStatus are atomic because both run under stateLock_.              *)
(*                                                                         *)
(* The callable passes a bounded number of safe points (periodic hook      *)
(* ticks and explicit interruption points), then returns or raises.        *)
(*                                                                         *)
(* A Notifier is a latch: notify() sets it, reset() clears it, a wait      *)
(* returns once it is set (or, with a duration, when the deadline elapses, *)
(* which may be at any time). The waitFor... methods of ThreadHandle wait  *)
(* on one notifier; the field they return is read in a later step.         *)
(*                                                                         *)
(* The controller thread is the thread that loaded the module: it runs     *)
(* Thread::initialize first, may call effil.yield() like any Lua code, and *)
(* runs effil_shutdown (src/cpp/shutdown.cpp) when the module is unloaded. *)
(*                                                                         *)
(* The registry of shared composites counts, for each composite, the       *)
(* strong references of stored objects and the references registered with  *)
(* a ThreadHandle; the interpreter that created a value may drop its own   *)
(* value at any time, so it does not count.                                *)
(***************************************************************************)
EXTENDS Naturals, Sequences, FiniteSets

\* ------------------------------------------------------------------ bounds
\* Most safe points a callable passes before it ends.
MaxTicks == 2
\* Number of API calls the controller makes.
MaxCalls == 3

\* ------------------------------------------------------------------- state
VARIABLES
    status_,              \* ThreadHandle::status_
    command_,             \* ThreadHandle::command_
    statusNotifier_,      \* latch of ThreadHandle::statusNotifier_
    commandNotifier_,     \* latch of ThreadHandle::commandNotifier_
    completionNotifier_,  \* latch of ThreadHandle::completionNotifier_
    result,               \* ThreadHandle::result()
    luaAlive,             \* ThreadHandle::lua_ not yet destroyed
    arguments,            \* runThread's argument storage not yet cleared
    function,             \* the callable handed to runThread
    wpc,                  \* position of the worker thread
    ip,                   \* number of the next safe point of the callable
    cmd,                  \* luaHook's local `cmd`
    cpc,                  \* position of the controller thread
    cop,                  \* API call the controller is in / made last
    ctimed,               \* that call was given a duration
    notified,             \* value waitForCompletion returned
    ret,                  \* list the last finished get/wait/status returned
    retb,                 \* bool the last finished cancel/pause returned
    ncalls,               \* calls begun so far
    prevOp,               \* history: call made before the current one
    cancelPaused,         \* history: a cancel found the status Paused
    cancelTrue,           \* history: cancels that returned true (0, 1, many)
    calledCancel,         \* history: cancel has been called
    pausedResumed,        \* history: resume() was called right after pause()
    everPaused,           \* history: the worker has been Paused
    entryStatus,          \* history: the status when the current call began
    SHUTDOWN,             \* effil::SHUTDOWN (shutdown.cpp)
    ACTIVE_THREAD_COUNT,  \* effil::ACTIVE_THREAD_COUNT (shutdown.cpp)
    thisThreadHandle,     \* thread_local thisThreadHandle, per thread
    refs,                 \* registry: reference count of each composite
    ipCmd                 \* history: an interruption point met this command

handle == <<status_, command_, statusNotifier_, commandNotifier_,
            completionNotifier_, result>>
workerVars == <<luaAlive, arguments, function, wpc, ip, cmd>>
ctlVars == <<cpc, cop, ctimed, notified, ret, retb, ncalls>>
histVars == <<prevOp, cancelPaused, cancelTrue, calledCancel, pausedResumed,
              everPaused, entryStatus>>
shutdownVars == <<SHUTDOWN, ACTIVE_THREAD_COUNT>>
vars == <<handle, workerVars, ctlVars, histVars, shutdownVars,
          thisThreadHandle, refs, ipCmd>>

\* ------------------------------------------------------------- enumerations
Status == {"Running", "Paused", "Canceled", "Completed", "Failed"}
Command == {"Run", "Cancel", "Pause"}

isFinishStatus(stat) == stat \in {"Canceled", "Completed", "Failed"}

statusToString(stat) ==
    CASE stat = "Running" -> "running"
      [] stat = "Paused" -> "paused"
      [] stat = "Canceled" -> "canceled"
      [] stat = "Completed" -> "completed"
      [] stat = "Failed" -> "failed"

\* ---------------------------------------------------------------- callables
\* What the callable returns when it returns.
ReturnLists == {<<>>, <<"v1", "v2">>}

\* A callable: whether it ends by raising, the values it returns otherwise,
\* and whether the interpreter build installs luaErrorHandler
\* (LUA_VERSION_NUM > 501). On its way it passes at most MaxTicks safe
\* points, each a hook tick or an interruption point.
Callables ==
    {[raises |-> FALSE, vals |-> v, handler |-> FALSE] : v \in ReturnLists}
    \cup
    {[raises |-> TRUE, vals |-> <<>>, handler |-> h] : h \in BOOLEAN}

what == "boom"
stacktrace == "traceback"

\* The composites (values with a gcHandle): the table passed as the thread's
\* argument, and the return value "v2"; "v1" is a scalar.
Composites == {"a1", "v2"}
gcHandle(v) == IF v \in Composites THEN v ELSE "nullptr"

\* The threads that run Lua code of the module.
Threads == {"main", "worker"}

\* --------------------------------------------------------- ThreadHandle
\* ThreadHandle::putCommand, under stateLock_.
putCommand_NoFinishCheck(c) ==
    /\ command_' = c
    /\ statusNotifier_' = FALSE
    /\ commandNotifier_' = TRUE
    /\ UNCHANGED <<status_, completionNotifier_>>

putCommand_NoStatusReset(c) ==
    /\ IF isFinishStatus(status_)
       THEN UNCHANGED <<command_, commandNotifier_>>
       ELSE /\ command_' = c
            /\ commandNotifier_' = TRUE
    /\ UNCHANGED <<status_, statusNotifier_, completionNotifier_>>

putCommand(c) ==
    /\ IF isFinishStatus(status_)
       THEN UNCHANGED <<command_, statusNotifier_, commandNotifier_>>
       ELSE /\ command_' = c
            /\ statusNotifier_' = FALSE
            /\ commandNotifier_' = TRUE
    /\ UNCHANGED <<status_, completionNotifier_>>

\* ThreadHandle::changeStatus, under stateLock_.
changeStatus_NoCompletion(stat) ==
    /\ status_' = stat
    /\ commandNotifier_' = FALSE
    /\ statusNotifier_' = TRUE
    /\ UNCHANGED <<command_, completionNotifier_>>

changeStatus(stat) ==
    /\ status_' = stat
    /\ commandNotifier_' = FALSE
    /\ statusNotifier_' = TRUE
    /\ completionNotifier_' = (isFinishStatus(stat) \/ completionNotifier_)
    /\ UNCHANGED command_

\* Thread::status: the payload for a status and a result list.
StatusPayload(stat, res) ==
    IF stat = "Failed" THEN res ELSE <<statusToString(stat)>>

\* ------------------------------------------------------------------- Init
Init ==
    /\ status_ = "Running"
    /\ command_ = "Run"
    /\ statusNotifier_ = FALSE
    /\ commandNotifier_ = FALSE
    /\ completionNotifier_ = FALSE
    /\ result = <<>>
    /\ luaAlive = TRUE
    /\ arguments = FALSE
    /\ function \in Callables
    /\ wpc = "unspawned"
    /\ ip = 1
    /\ cmd = "Run"
    /\ cpc = "init_store"
    /\ cop = "none"
    /\ ctimed = FALSE
    /\ notified = FALSE
    /\ ret = <<>>
    /\ retb = FALSE
    /\ ncalls = 0
    /\ prevOp = "none"
    /\ cancelPaused = "no"
    /\ cancelTrue = 0
    /\ calledCancel = FALSE
    /\ pausedResumed = FALSE
    /\ everPaused = FALSE
    /\ entryStatus = "Running"
    /\ SHUTDOWN = FALSE
    /\ ACTIVE_THREAD_COUNT = 0
    /\ thisThreadHandle = [t \in Threads |-> "nullptr"]
    /\ refs = [o \in Composites |-> 0]
    /\ ipCmd = "none"

\* ThreadHandle::waitForCommandChange(NO_TIMEOUT): blocks on the command
\* notifier; the command is read afterward.
waitForCommandChange == commandNotifier_

\* ThreadHandle::waitForStatusChange: blocks on the status notifier, or
\* until the deadline; the status is read afterward.
waitForStatusChange == statusNotifier_ \/ ctimed

\* ThreadHandle::waitForCompletion: blocks on the completion notifier, or
\* until the deadline; returns whether the notifier was notified.
waitForCompletion ==
    /\ completionNotifier_ \/ ctimed
    /\ notified' = completionNotifier_

\* ------------------------------------------------------ composite registry
\* createStoredObject of a composite: the new stored object holds one
\* strong reference to the composite's handle.
createStoredObject(o) == refs' = [refs EXCEPT ![o] = @ + 1]

\* ThreadHandle::addReference (GCObject): the handle holds a reference.
addReference(o) == refs' = [refs EXCEPT ![o] = @ + 1]

\* StoredObject::releaseStrongReference: the stored object keeps a weak one.
releaseStrongReference(o) == refs' = [refs EXCEPT ![o] = @ - 1]

\* The two calls that follow createStoredObject, in the order in which
\* Thread::initialize and Thread::runThread make them.
HandOffOrder_ReleaseFirst == <<"releaseStrongReference", "addReference">>

HandOffOrder == <<"addReference", "releaseStrongReference">>

HandOffCall(i, o) ==
    IF HandOffOrder[i] = "addReference"
    THEN addReference(o)
    ELSE releaseStrongReference(o)

\* ------------------------------------------------------------ worker thread
\* What a worker step leaves alone on the controller's side, and what most
\* worker steps leave alone on their own side.
MainSide ==
    UNCHANGED <<ctlVars, prevOp, cancelPaused, cancelTrue, calledCancel,
                pausedResumed, entryStatus, function, shutdownVars>>

WorkerFrame ==
    /\ MainSide
    /\ UNCHANGED <<thisThreadHandle, refs, ipCmd>>

\* ScopeGuard reportComplete in runThread: arguments.clear(), destroyLua().
reportComplete ==
    /\ arguments' = FALSE
    /\ luaAlive' = FALSE

\* The callable is running and reaches one more safe point.
AtSafePoint ==
    /\ wpc = "call"
    /\ ip <= MaxTicks

\* runThread entry: thisThreadHandle = thread.ctx_.get(); load and call.
RunThreadStart ==
    /\ wpc = "start"
    /\ thisThreadHandle' = [thisThreadHandle EXCEPT !["worker"] = "ctx"]
    /\ wpc' = "call"
    /\ UNCHANGED <<handle, luaAlive, arguments, ip, cmd, everPaused, refs,
                   ipCmd>>
    /\ MainSide

\* luaHook: switch (thisThreadHandle->command()).
LuaHook ==
    /\ AtSafePoint
    /\ CASE command_ = "Run" -> ip' = ip + 1 /\ UNCHANGED wpc
         [] command_ = "Cancel" -> wpc' = "hook_cancel" /\ UNCHANGED ip
         [] command_ = "Pause" -> wpc' = "hook_pause" /\ UNCHANGED ip
    /\ UNCHANGED <<handle, luaAlive, arguments, cmd, everPaused>>
    /\ WorkerFrame

\* luaHook, case Command::Cancel: changeStatus(Canceled), then the throw.
LuaHookCancel ==
    /\ wpc = "hook_cancel"
    /\ changeStatus("Canceled")
    /\ wpc' = "thrown"
    /\ UNCHANGED <<result, luaAlive, arguments, ip, cmd, everPaused>>
    /\ WorkerFrame

\* luaHook, case Command::Pause: changeStatus(Paused).
LuaHookPause ==
    /\ wpc = "hook_pause"
    /\ changeStatus("Paused")
    /\ wpc' = "pause_wait"
    /\ everPaused' = TRUE
    /\ UNCHANGED <<result, luaAlive, arguments, ip, cmd>>
    /\ WorkerFrame

\* luaHook pause loop: waitForCommandChange(NO_TIMEOUT) blocks on the
\* command notifier ...
LuaHookWait ==
    /\ wpc = "pause_wait"
    /\ waitForCommandChange
    /\ wpc' = "pause_read"
    /\ UNCHANGED <<handle, luaAlive, arguments, ip, cmd, everPaused>>
    /\ WorkerFrame

\* ... and returns the command observed afterward; the loop ends on Run or
\* Cancel.
LuaHookRead ==
    /\ wpc = "pause_read"
    /\ cmd' = command_
    /\ wpc' = CASE command_ = "Run" -> "pause_run"
                [] command_ = "Cancel" -> "pause_cancel"
                [] command_ = "Pause" -> "pause_wait"
    /\ UNCHANGED <<handle, luaAlive, arguments, ip, everPaused>>
    /\ WorkerFrame

\* luaHook after the loop, cmd == Run: changeStatus(Running), go on.
LuaHookResume_AsCancel ==
    /\ wpc = "pause_run"
    /\ changeStatus("Canceled")
    /\ wpc' = "thrown"
    /\ UNCHANGED <<result, luaAlive, arguments, ip, cmd, everPaused>>
    /\ WorkerFrame

LuaHookResume ==
    /\ wpc = "pause_run"
    /\ changeStatus("Running")
    /\ wpc' = "call"
    /\ ip' = ip + 1
    /\ UNCHANGED <<result, luaAlive, arguments, cmd, everPaused>>
    /\ WorkerFrame

\* luaHook after the loop, cmd == Cancel: changeStatus(Canceled), throw.
LuaHookPausedCancel_AsRun ==
    /\ wpc = "pause_cancel"
    /\ changeStatus("Running")
    /\ wpc' = "call"
    /\ ip' = ip + 1
    /\ UNCHANGED <<result, luaAlive, arguments, cmd, everPaused>>
    /\ WorkerFrame

LuaHookPausedCancel ==
    /\ wpc = "pause_cancel"
    /\ changeStatus("Canceled")
    /\ wpc' = "thrown"
    /\ UNCHANGED <<result, luaAlive, arguments, ip, cmd, everPaused>>
    /\ WorkerFrame

\* this_thread::interruptionPoint: only Cancel is looked at.
InterruptionPoint_IgnoresCancel ==
    /\ AtSafePoint
    /\ ip' = ip + 1 /\ UNCHANGED wpc
    /\ ipCmd' = IF command_ = "Pause" THEN "Pause" ELSE ipCmd
    /\ UNCHANGED <<handle, luaAlive, arguments, cmd, everPaused,
                   thisThreadHandle, refs>>
    /\ MainSide

InterruptionPoint ==
    /\ AtSafePoint
    /\ IF command_ = "Cancel"
       THEN wpc' = "ip_cancel" /\ UNCHANGED ip
       ELSE ip' = ip + 1 /\ UNCHANGED wpc
    /\ ipCmd' = IF command_ = "Pause" THEN "Pause" ELSE ipCmd
    /\ UNCHANGED <<handle, luaAlive, arguments, cmd, everPaused,
                   thisThreadHandle, refs>>
    /\ MainSide

InterruptionPointCancel ==
    /\ wpc = "ip_cancel"
    /\ changeStatus("Canceled")
    /\ wpc' = "thrown"
    /\ UNCHANGED <<result, luaAlive, arguments, ip, cmd, everPaused>>
    /\ WorkerFrame

\* LuaHookStopException leaves the call as a C++ exception: the scope guard
\* runs, then the handler `catch (const LuaHookStopException&)`.
UnwindToCatch ==
    /\ wpc = "thrown"
    /\ reportComplete
    /\ wpc' = "catch_stop"
    /\ UNCHANGED <<handle, ip, cmd, everPaused>>
    /\ WorkerFrame

\* LuaHookStopException is turned into an invalid call result by the
\* interpreter's protected call: `if (status() == Canceled) return;`,
\* otherwise the result is thrown on as a std::runtime_error.
UnwindInvalidResult_NoCanceledCheck ==
    /\ wpc = "thrown"
    /\ reportComplete
    /\ wpc' = "catch_error"
    /\ UNCHANGED <<handle, ip, cmd, everPaused>>
    /\ WorkerFrame

UnwindInvalidResult ==
    /\ wpc = "thrown"
    /\ reportComplete
    /\ wpc' = IF status_ = "Canceled" THEN "exited" ELSE "catch_error"
    /\ UNCHANGED <<handle, ip, cmd, everPaused>>
    /\ WorkerFrame

\* catch (const LuaHookStopException&): changeStatus(Canceled).
CatchStop ==
    /\ wpc = "catch_stop"
    /\ changeStatus("Canceled")
    /\ wpc' = "exited"
    /\ UNCHANGED <<result, luaAlive, arguments, ip, cmd, everPaused>>
    /\ WorkerFrame

\* The callable raises: luaErrorHandler (when installed) appends the
\* traceback to the result list, the invalid result is thrown as a
\* std::runtime_error, the scope guard runs.
FunctionRaise ==
    /\ wpc = "call"
    /\ function.raises
    /\ result' = IF function.handler THEN Append(result, stacktrace) ELSE result
    /\ reportComplete
    /\ wpc' = IF status_ = "Canceled" THEN "exited" ELSE "catch_error"
    /\ UNCHANGED <<status_, command_, statusNotifier_, commandNotifier_,
                   completionNotifier_, ip, cmd, everPaused>>
    /\ WorkerFrame

\* catch (const std::exception&): "failed" and err.what() go to the front.
CatchError_AtBack ==
    /\ wpc = "catch_error"
    /\ result' = result \o <<"failed", what>>
    /\ wpc' = "catch_failed"
    /\ UNCHANGED <<status_, command_, statusNotifier_, commandNotifier_,
                   completionNotifier_, luaAlive, arguments, ip, cmd,
                   everPaused>>
    /\ WorkerFrame

CatchError ==
    /\ wpc = "catch_error"
    /\ result' = <<"failed", what>> \o result
    /\ wpc' = "catch_failed"
    /\ UNCHANGED <<status_, command_, statusNotifier_, commandNotifier_,
                   completionNotifier_, luaAlive, arguments, ip, cmd,
                   everPaused>>
    /\ WorkerFrame

CatchFailed ==
    /\ wpc = "catch_failed"
    /\ changeStatus("Failed")
    /\ wpc' = "exited"
    /\ UNCHANGED <<result, luaAlive, arguments, ip, cmd, everPaused>>
    /\ WorkerFrame

\* The callable returns: the result is valid, the return values are stored.
FunctionReturn ==
    /\ wpc = "call"
    /\ ~function.raises
    /\ wpc' = "capture"
    /\ UNCHANGED <<handle, luaAlive, arguments, ip, cmd, everPaused>>
    /\ WorkerFrame

\* The return value the capture loop handles next.
NextValue == function.vals[Len(result) + 1]

\* for (iter : args): store = createStoredObject(iter.get()), and
\* `if (store->gcHandle() != nullptr)` ...
StoreCreate ==
    /\ wpc = "capture"
    /\ Len(result) < Len(function.vals)
    /\ gcHandle(NextValue) # "nullptr"
    /\ createStoredObject(NextValue)
    /\ wpc' = "store_first"
    /\ UNCHANGED <<handle, luaAlive, arguments, ip, cmd, everPaused,
                   thisThreadHandle, ipCmd>>
    /\ MainSide

\* ... addReference(store->gcHandle()) ...
StoreFirst ==
    /\ wpc = "store_first"
    /\ HandOffCall(1, NextValue)
    /\ wpc' = "store_second"
    /\ UNCHANGED <<handle, luaAlive, arguments, ip, cmd, everPaused,
                   thisThreadHandle, ipCmd>>
    /\ MainSide

\* ... store->releaseStrongReference().
StoreSecond ==
    /\ wpc = "store_second"
    /\ HandOffCall(2, NextValue)
    /\ wpc' = "store_emplace"
    /\ UNCHANGED <<handle, luaAlive, arguments, ip, cmd, everPaused,
                   thisThreadHandle, ipCmd>>
    /\ MainSide

\* result().emplace_back(std::move(store)): at once for a value without a
\* gcHandle, after the hand-off for a composite.
StoreResult_AtFront ==
    /\ \/ wpc = "store_emplace"
       \/ /\ wpc = "capture"
          /\ Len(result) < Len(function.vals)
          /\ gcHandle(NextValue) = "nullptr"
    /\ result' = <<NextValue>> \o result
    /\ wpc' = "capture"
    /\ UNCHANGED <<status_, command_, statusNotifier_, commandNotifier_,
                   completionNotifier_, luaAlive, arguments, ip, cmd,
                   everPaused>>
    /\ WorkerFrame

StoreResult ==
    /\ \/ wpc = "store_emplace"
       \/ /\ wpc = "capture"
          /\ Len(result) < Len(function.vals)
          /\ gcHandle(NextValue) = "nullptr"
    /\ result' = Append(result, NextValue)
    /\ wpc' = "capture"
    /\ UNCHANGED <<status_, command_, statusNotifier_, commandNotifier_,
                   completionNotifier_, luaAlive, arguments, ip, cmd,
                   everPaused>>
    /\ WorkerFrame

\* End of the guarded scope on the success path: the scope guard runs.
ScopeExit_NoGuard ==
    /\ wpc = "capture"
    /\ Len(result) = Len(function.vals)
    /\ UNCHANGED <<luaAlive, arguments>>
    /\ wpc' = "completing"
    /\ UNCHANGED <<handle, ip, cmd, everPaused>>
    /\ WorkerFrame

ScopeExit ==
    /\ wpc = "capture"
    /\ Len(result) = Len(function.vals)
    /\ reportComplete
    /\ wpc' = "completing"
    /\ UNCHANGED <<handle, ip, cmd, everPaused>>
    /\ WorkerFrame

\* thread.ctx_->changeStatus(Status::Completed).
Complete ==
    /\ wpc = "completing"
    /\ changeStatus("Completed")
    /\ wpc' = "exited"
    /\ UNCHANGED <<result, luaAlive, arguments, ip, cmd, everPaused>>
    /\ WorkerFrame

Worker ==
    \/ RunThreadStart
    \/ LuaHook
    \/ LuaHookCancel
    \/ LuaHookPause
    \/ LuaHookWait
    \/ LuaHookRead
    \/ LuaHookResume
    \/ LuaHookPausedCancel
    \/ InterruptionPoint
    \/ InterruptionPointCancel
    \/ UnwindToCatch
    \/ UnwindInvalidResult
    \/ CatchStop
    \/ FunctionRaise
    \/ CatchError
    \/ CatchFailed
    \/ FunctionReturn
    \/ StoreCreate
    \/ StoreFirst
    \/ StoreSecond
    \/ StoreResult
    \/ ScopeExit
    \/ Complete

\* -------------------------------------------------------- controller thread
\* What a controller step leaves alone on the worker's side.
ControllerFrame ==
    UNCHANGED <<workerVars, everPaused, shutdownVars, thisThreadHandle, refs,
                ipCmd>>
InCallFrame == UNCHANGED entryStatus

\* The controller enters the API call `op`, with a duration or without.
Enter(op, timed) ==
    /\ cpc = "idle"
    /\ ncalls < MaxCalls
    /\ ncalls' = ncalls + 1
    /\ prevOp' = cop
    /\ cop' = op
    /\ ctimed' = timed
    /\ ret' = <<>>
    /\ retb' = FALSE
    /\ notified' = FALSE
    /\ entryStatus' = status_

\* A later command that replaces a pending Cancel ends the history of it.
Overwrites == IF isFinishStatus(status_) THEN cancelPaused ELSE "no"

\* Thread::status.
Thread_status ==
    /\ cpc = "idle"
    /\ ncalls < MaxCalls
    /\ ncalls' = ncalls + 1
    /\ prevOp' = cop
    /\ cop' = "status"
    /\ entryStatus' = status_
    /\ ret' = StatusPayload(status_, result)
    /\ retb' = FALSE
    /\ UNCHANGED <<handle, cpc, ctimed, notified, cancelPaused, cancelTrue,
                   calledCancel, pausedResumed>>
    /\ ControllerFrame

\* Thread::get: waitForCompletion(...) && status() == Completed.
Thread_get ==
    /\ \E timed \in BOOLEAN : Enter("get", timed)
    /\ cpc' = "get_wait"
    /\ UNCHANGED <<handle, cancelPaused, cancelTrue, calledCancel,
                   pausedResumed>>
    /\ ControllerFrame

GetWait ==
    /\ cpc = "get_wait"
    /\ waitForCompletion
    /\ cpc' = "get_ret"
    /\ UNCHANGED <<handle, cop, ctimed, ret, retb, ncalls, prevOp, cancelPaused,
                   cancelTrue, calledCancel, pausedResumed>>
    /\ ControllerFrame
    /\ InCallFrame

GetReturn_NoStatusCheck ==
    /\ cpc = "get_ret"
    /\ ret' = IF notified THEN result ELSE <<>>
    /\ cpc' = "idle"
    /\ UNCHANGED <<handle, cop, ctimed, notified, ncalls, prevOp,
                   cancelPaused, cancelTrue, calledCancel, pausedResumed>>
    /\ ControllerFrame
    /\ InCallFrame
    /\ UNCHANGED retb

GetReturn ==
    /\ cpc = "get_ret"
    /\ ret' = IF notified /\ status_ = "Completed" THEN result ELSE <<>>
    /\ cpc' = "idle"
    /\ UNCHANGED <<handle, cop, ctimed, notified, ncalls, prevOp,
                   cancelPaused, cancelTrue, calledCancel, pausedResumed>>
    /\ ControllerFrame
    /\ InCallFrame
    /\ UNCHANGED retb

\* Thread::wait: waitForCompletion(...), then status(lua).
Thread_wait ==
    /\ \E timed \in BOOLEAN : Enter("wait", timed)
    /\ cpc' = "wait_wait"
    /\ UNCHANGED <<handle, cancelPaused, cancelTrue, calledCancel,
                   pausedResumed>>
    /\ ControllerFrame

WaitWait_OnStatusChange ==
    /\ cpc = "wait_wait"
    /\ waitForStatusChange
    /\ notified' = completionNotifier_
    /\ cpc' = "wait_ret"
    /\ UNCHANGED <<handle, cop, ctimed, ret, retb, ncalls, prevOp, cancelPaused,
                   cancelTrue, calledCancel, pausedResumed>>
    /\ ControllerFrame
    /\ InCallFrame

WaitWait ==
    /\ cpc = "wait_wait"
    /\ waitForCompletion
    /\ cpc' = "wait_ret"
    /\ UNCHANGED <<handle, cop, ctimed, ret, retb, ncalls, prevOp, cancelPaused,
                   cancelTrue, calledCancel, pausedResumed>>
    /\ ControllerFrame
    /\ InCallFrame

WaitReturn ==
    /\ cpc = "wait_ret"
    /\ ret' = StatusPayload(status_, result)
    /\ cpc' = "idle"
    /\ UNCHANGED <<handle, cop, ctimed, notified, ncalls, prevOp,
                   cancelPaused, cancelTrue, calledCancel, pausedResumed>>
    /\ ControllerFrame
    /\ InCallFrame
    /\ UNCHANGED retb

\* Thread::cancel: putCommand(Cancel) ...
Thread_cancel ==
    /\ \E timed \in BOOLEAN : Enter("cancel", timed)
    /\ putCommand("Cancel")
    /\ cpc' = "cancel_interrupt"
    /\ calledCancel' = TRUE
    /\ cancelPaused' = IF status_ = "Paused"
                       THEN (IF wpc = "pause_run" THEN "leaving" ELSE "inLoop")
                       ELSE cancelPaused
    /\ UNCHANGED <<result, cancelTrue, pausedResumed>>
    /\ ControllerFrame

\* ... interrupt(): wakes the interruptable the worker registered, if any;
\* the worker of this model registers none ...
CancelInterrupt ==
    /\ cpc = "cancel_interrupt"
    /\ cpc' = "cancel_wait"
    /\ UNCHANGED <<handle, cop, ctimed, notified, ret, retb, ncalls, prevOp,
                   cancelPaused, cancelTrue, calledCancel, pausedResumed>>
    /\ ControllerFrame
    /\ InCallFrame

\* ... waitForStatusChange(...) ...
CancelWait ==
    /\ cpc = "cancel_wait"
    /\ waitForStatusChange
    /\ cpc' = "cancel_ret"
    /\ UNCHANGED <<handle, cop, ctimed, notified, ret, retb, ncalls, prevOp,
                   cancelPaused, cancelTrue, calledCancel, pausedResumed>>
    /\ ControllerFrame
    /\ InCallFrame

\* ... return isFinishStatus(status).
CancelReturn ==
    /\ cpc = "cancel_ret"
    /\ retb' = isFinishStatus(status_)
    /\ cancelTrue' = IF isFinishStatus(status_) /\ cancelTrue < 2
                   THEN cancelTrue + 1 ELSE cancelTrue
    /\ cpc' = "idle"
    /\ UNCHANGED <<handle, cop, ctimed, notified, ncalls, prevOp,
                   cancelPaused, calledCancel, pausedResumed>>
    /\ ControllerFrame
    /\ InCallFrame
    /\ UNCHANGED ret

\* Thread::pause: putCommand(Pause), waitForStatusChange(...),
\* return status == Paused.
Thread_pause ==
    /\ \E timed \in BOOLEAN : Enter("pause", timed)
    /\ putCommand("Pause")
    /\ cpc' = "pause_wait"
    /\ cancelPaused' = Overwrites
    /\ UNCHANGED <<result, cancelTrue, calledCancel, pausedResumed>>
    /\ ControllerFrame

PauseWait ==
    /\ cpc = "pause_wait"
    /\ waitForStatusChange
    /\ cpc' = "pause_ret"
    /\ UNCHANGED <<handle, cop, ctimed, notified, ret, retb, ncalls, prevOp,
                   cancelPaused, cancelTrue, calledCancel, pausedResumed>>
    /\ ControllerFrame
    /\ InCallFrame

PauseReturn ==
    /\ cpc = "pause_ret"
    /\ retb' = (status_ = "Paused")
    /\ cpc' = "idle"
    /\ UNCHANGED <<handle, cop, ctimed, notified, ncalls, prevOp,
                   cancelPaused, cancelTrue, calledCancel, pausedResumed>>
    /\ ControllerFrame
    /\ InCallFrame
    /\ UNCHANGED ret

\* Thread::resume: putCommand(Run).
Thread_resume ==
    /\ Enter("resume", FALSE)
    /\ putCommand("Run")
    /\ cpc' = "idle"
    /\ cancelPaused' = Overwrites
    /\ pausedResumed' = (pausedResumed \/ cop = "pause")
    /\ UNCHANGED <<result, cancelTrue, calledCancel>>
    /\ ControllerFrame

\* Thread::initialize, the argument loop for the composite argument:
\* storedObj = createStoredObject(arg) ...
InitializeStore ==
    /\ cpc = "init_store"
    /\ createStoredObject("a1")
    /\ cpc' = "init_first"
    /\ UNCHANGED <<handle, workerVars, cop, ctimed, notified, ret, retb, ncalls,
                   histVars, shutdownVars, thisThreadHandle, ipCmd>>

\* ... ctx_->addReference(storedObj->gcHandle()) ...
InitializeFirst ==
    /\ cpc = "init_first"
    /\ HandOffCall(1, "a1")
    /\ cpc' = "init_second"
    /\ UNCHANGED <<handle, workerVars, cop, ctimed, notified, ret, retb, ncalls,
                   histVars, shutdownVars, thisThreadHandle, ipCmd>>

\* ... storedObj->releaseStrongReference(), arguments.emplace_back.
InitializeSecond ==
    /\ cpc = "init_second"
    /\ HandOffCall(2, "a1")
    /\ arguments' = TRUE
    /\ cpc' = "init_spawn"
    /\ UNCHANGED <<handle, luaAlive, function, wpc, ip, cmd, cop, ctimed,
                   notified, ret, retb, ncalls, histVars, shutdownVars,
                   thisThreadHandle, ipCmd>>

\* std::thread thr(&Thread::runThread, ...); thr.detach().
InitializeSpawn ==
    /\ cpc = "init_spawn"
    /\ wpc' = "start"
    /\ cpc' = "idle"
    /\ UNCHANGED <<handle, luaAlive, arguments, function, ip, cmd, cop, ctimed,
                   notified, ret, retb, ncalls, histVars, shutdownVars,
                   thisThreadHandle, refs, ipCmd>>

\* effil.yield(), or effil.sleep() without a duration, called by the
\* module's own thread: this_thread::yield calls luaHook(nullptr, nullptr).
this_thread_yield ==
    /\ Enter("yield", FALSE)
    /\ cpc' = "yield_hook"
    /\ UNCHANGED <<handle, cancelPaused, cancelTrue, calledCancel,
                   pausedResumed>>
    /\ ControllerFrame

\* luaHook on that thread. With a null thisThreadHandle the assertion
\* aborts the process; compiled without assertions,
\* thisThreadHandle->command() reads through the null pointer, and the
\* process dies or the read yields Run and the hook returns.
MainLuaHook ==
    /\ cpc = "yield_hook"
    /\ IF thisThreadHandle["main"] = "nullptr"
       THEN cpc' \in {"aborted", "idle"}
       ELSE cpc' = "idle"
    /\ UNCHANGED <<handle, cop, ctimed, notified, ret, retb, ncalls, prevOp,
                   cancelPaused, cancelTrue, calledCancel, pausedResumed>>
    /\ ControllerFrame
    /\ InCallFrame

\* ------------------------------------------------------- module shutdown
\* Shutdown::activeThreads and the two writers of the counter (shutdown.h).
\* Neither Thread::runThread nor luaHook calls threadStart or threadFinish.
activeThreads == ACTIVE_THREAD_COUNT
threadStart == ACTIVE_THREAD_COUNT' = ACTIVE_THREAD_COUNT + 1
threadFinish == ACTIVE_THREAD_COUNT' = ACTIVE_THREAD_COUNT - 1

\* effil_shutdown, run by Shutdown::gc when the module's cookie is
\* collected: SHUTDOWN.store(true) ...
effil_shutdown ==
    /\ Enter("shutdown", FALSE)
    /\ SHUTDOWN' = TRUE
    /\ cpc' = "shutdown_poll"
    /\ UNCHANGED <<handle, cancelPaused, cancelTrue, calledCancel,
                   pausedResumed, ACTIVE_THREAD_COUNT>>
    /\ UNCHANGED <<workerVars, everPaused, thisThreadHandle, refs, ipCmd>>

\* ... while (Shutdown::activeThreads() > 0) sleep_for(10ms); then return:
\* the module is unloaded and its thread makes no further call.
ShutdownPoll ==
    /\ cpc = "shutdown_poll"
    /\ cpc' = IF activeThreads > 0 THEN "shutdown_poll" ELSE "unloaded"
    /\ UNCHANGED <<handle, cop, ctimed, notified, ret, retb, ncalls, prevOp,
                   cancelPaused, cancelTrue, calledCancel, pausedResumed>>
    /\ ControllerFrame
    /\ InCallFrame

Controller ==
    \/ Thread_status
    \/ Thread_get
    \/ GetWait
    \/ GetReturn
    \/ Thread_wait
    \/ WaitWait
    \/ WaitReturn
    \/ Thread_cancel
    \/ CancelInterrupt
    \/ CancelWait
    \/ CancelReturn
    \/ Thread_pause
    \/ PauseWait
    \/ PauseReturn
    \/ Thread_resume
    \/ InitializeStore
    \/ InitializeFirst
    \/ InitializeSecond
    \/ InitializeSpawn
    \/ this_thread_yield
    \/ MainLuaHook
    \/ effil_shutdown
    \/ ShutdownPoll

\* ----------------------------------------------------------- specifications
Next == Worker \/ Controller

Spec == Init /\ [][Next]_vars

\* The OS schedules the worker thread and the controller thread: a step
\* that stays possible is eventually taken. A controller between two calls
\* need not call again.
InCall == Controller /\ cpc # "idle"

LiveSpec == Spec /\ WF_vars(Worker) /\ WF_vars(InCall)

\* ------------------------------------------------------------------ claims
\* The controller takes a step of the call `op` (worker steps leave cpc and
\* ncalls alone).
StepOf(op) == cop' = op /\ (cpc' # cpc \/ ncalls' # ncalls)

\* C1: terminal statuses are absorbing: once the status is Canceled,
\* Completed or Failed, no step of the worker (hook, interruption point,
\* exit paths of runThread) or of the controller changes it.
C1_TerminalAbsorbing ==
    [][isFinishStatus(status_) => status_' = status_]_vars

\* The worker ran its exit path after the hook set Canceled, a cancel saw the
\* terminal status, and a later pause() put a command.
C1_Witness ==
    /\ status_ = "Canceled"
    /\ wpc = "exited"
    /\ cancelTrue >= 1
    /\ cop = "pause"
    /\ cpc = "idle"

C3_FreshUntimedWait == ncalls = 1 /\ cop \in {"get", "wait"} /\ ~ctimed

\* C3: when the first call on a fresh worker is an untimed get() or wait(),
\* the status eventually is terminal and the call has returned.
C3_UntimedWaitTerminates ==
    C3_FreshUntimedWait ~> (isFinishStatus(status_) /\ cpc = "idle")

\* The first call, an untimed get(), has returned the values of a callable
\* that ran through safe points.
C3_Witness ==
    /\ C3_FreshUntimedWait
    /\ cop = "get"
    /\ cpc = "idle"
    /\ status_ = "Completed"
    /\ ip > 1
    /\ ret = <<"v1", "v2">>

C5_UntimedCancelReturnsTerminal ==
    (cop = "cancel" /\ ~ctimed /\ cpc = "idle") =>
        (isFinishStatus(status_) /\ retb)

\* C6: putCommand(cmd) on a terminal status changes neither the command,
\* the status, the result list nor the latch of any of the three notifiers,
\* for cmd Cancel (cancel), Pause (pause) and Run (resume).
C6_PutCommandTerminalNoOp ==
    [][(cpc = "idle" /\ isFinishStatus(status_)
        /\ (StepOf("cancel") \/ StepOf("pause") \/ StepOf("resume")))
       => UNCHANGED handle]_vars

\* resume() put Run after a cancel had seen the terminal status; the command
\* is still Cancel.
C6_Witness ==
    /\ cancelTrue >= 1
    /\ cop = "resume"
    /\ isFinishStatus(status_)
    /\ command_ = "Cancel"

\* C7: get returns the result list exactly when the completion was notified
\* by the deadline and the status is Completed, and an empty list otherwise
\* (timed out while Running or Paused, or Failed, or Canceled); no step of
\* get changes the handle, so the status is as the worker left it.
C7_GetResult ==
    /\ [](cop = "get" /\ cpc = "idle" =>
            /\ (notified /\ status_ = "Completed") => ret = result
            /\ (~notified \/ status_ # "Completed") => ret = <<>>
            /\ ~ctimed => notified)
    /\ [][StepOf("get") => UNCHANGED handle]_vars

\* A timed get() ran into its deadline while the worker was still running
\* and returned the empty list.
C7_Witness ==
    /\ cop = "get"
    /\ cpc = "idle"
    /\ ctimed
    /\ ~notified
    /\ status_ = "Running"
    /\ wpc = "capture"
    /\ result # <<>>
    /\ ret = <<>>

\* C8 as stated: a change of the status releases a blocked wait().
C8_StatusChangeReleasesWait ==
    (cop = "wait" /\ cpc = "wait_wait" /\ ~ctimed /\ status_ # entryStatus)
        => completionNotifier_

\* C8 as amended: wait blocks until the status is terminal (or the deadline
\* elapses): an untimed wait is released only by a terminal status and is
\* released once the status is terminal; it then returns the payload of
\* status() at that moment.
C8_WaitUntilCompletion ==
    /\ [](cop = "wait" /\ cpc = "wait_ret" /\ ~ctimed => isFinishStatus(status_))
    /\ [](cop = "wait" /\ cpc = "wait_wait" /\ isFinishStatus(status_)
            => completionNotifier_)
    /\ [][cpc = "wait_ret" /\ cpc' = "idle"
            => ret' = StatusPayload(status_', result')]_vars

\* An untimed wait() has returned the payload of a failed worker.
C8_Witness ==
    /\ cop = "wait"
    /\ cpc = "idle"
    /\ ~ctimed
    /\ status_ = "Failed"
    /\ ret = <<"failed", what>>

\* C9: a pause() with no deadline does not return false for a worker that
\* is not terminal and then becomes Paused from that same Pause command (no
\* call was made since).
C9_UntimedPauseFalse ==
    ~ /\ cop = "pause"
      /\ ~ctimed
      /\ cpc = "idle"
      /\ ~retb
      /\ command_ = "Pause"
      /\ status_ = "Paused"

\* C10: once a cancel() has returned true, a further cancel() does not
\* block, returns true, and none of its steps changes the handle.
C10_CancelIdempotent ==
    /\ [](cancelTrue >= 1 /\ cop = "cancel" /\ cpc = "cancel_wait"
            => statusNotifier_)
    /\ [](cancelTrue >= 1 /\ cop = "cancel" /\ cpc = "idle" => retb)
    /\ [][cancelTrue >= 1 /\ StepOf("cancel") => UNCHANGED handle]_vars

\* Two cancels have returned true.
C10_Witness ==
    /\ cancelTrue = 2
    /\ prevOp = "cancel"
    /\ cop = "cancel"
    /\ cpc = "idle"
    /\ retb


\* C11: when effil_shutdown() has returned, the spawned worker has exited:
\* it is no longer executing inside runThread.
C11_ShutdownWaitsForWorker == cpc = "unloaded" => wpc = "exited"

\* C12: for a callable that raises an error, the result list is written
\* before the status becomes Failed: in every state where the status is
\* Failed the list begins with the failure marker followed by the error
\* description, and that is what status() and wait() report first.
C12_FailedResult ==
    /\ status_ = "Failed" =>
          /\ Len(result) >= 2
          /\ result[1] = "failed"
          /\ result[2] = what
          /\ SubSeq(StatusPayload(status_, result), 1, 2) = <<"failed", what>>
    /\ (status_ = "Failed" /\ ~function.handler) => result = <<"failed", what>>
    /\ wpc = "catch_failed" => (status_ # "Failed" /\ Head(result) = "failed")

C12_Witness ==
    /\ status_ = "Failed"
    /\ function.handler
    /\ cop = "status"
    /\ entryStatus = "Failed"
    /\ ret = <<"failed", what, stacktrace>>

\* A composite is being handed over: its stored object exists and is not
\* yet in the argument list or the result list.
InHandOff(o) ==
    \/ o = "a1" /\ cpc \in {"init_first", "init_second"}
    \/ o = "v2" /\ wpc \in {"store_first", "store_second", "store_emplace"}

\* The hand-off of a composite is over and the ThreadHandle still exists.
HandedOver(o) ==
    \/ o = "a1" /\ cpc \notin {"init_store", "init_first", "init_second"}
    \/ o = "v2" /\ "v2" \in {result[i] : i \in 1..Len(result)}

\* C13: for a composite handed over as a thread argument (initialize) or as
\* a thread result (runThread), the handle's reference is registered before
\* the stored object's strong reference is released: the registry's count
\* for the composite is never zero during the hand-off nor after it, and at
\* the moment the strong reference has been released the count is the
\* handle's reference alone.
C13_HandOffKeepsReference ==
    \A o \in Composites :
        /\ InHandOff(o) => refs[o] >= 1
        /\ HandedOver(o) => refs[o] = 1

C13_Witness ==
    /\ wpc = "store_second"
    /\ refs = [o \in Composites |-> IF o = "v2" THEN 2 ELSE 1]
    /\ result = <<"v1">>

\* C14: no command is lost in the pause protocol; stated for Run: the
\* worker is never blocked in waitForCommandChange of the pause loop while
\* the latest command is Run, since nothing but a further command would
\* then take it out of Paused.
C14_NoLostResume ==
    ~(/\ wpc = "pause_wait"
      /\ status_ = "Paused"
      /\ command_ = "Run"
      /\ ~waitForCommandChange)

\* The commands the calls of the controller put.
CommandOf(op) ==
    CASE op = "cancel" -> "Cancel"
      [] op = "pause" -> "Pause"
      [] op = "resume" -> "Run"

\* The step is the putCommand of a call on a worker that is not terminal.
PutCommandStep ==
    /\ cpc = "idle"
    /\ ncalls' # ncalls
    /\ cop' \in {"cancel", "pause", "resume"}
    /\ ~isFinishStatus(status_)

\* The positions of the worker whose next step is a changeStatus.
ChangeStatusSites ==
    {"hook_cancel", "hook_pause", "pause_run", "pause_cancel", "ip_cancel",
     "catch_stop", "catch_failed", "completing"}

ChangeStatusStep == wpc \in ChangeStatusSites /\ wpc' # wpc

\* C15 as stated: putCommand on a non-terminal worker sets the command,
\* leaves the command notifier latched and leaves the status and the status
\* and completion latches unchanged; changeStatus sets the status, leaves
\* the status notifier latched (and the completion notifier when the new
\* status is terminal) and leaves the command and the command latch
\* unchanged.
C15_WritersTouchOwnSide ==
    [][/\ PutCommandStep =>
            /\ command_' = CommandOf(cop')
            /\ commandNotifier_'
            /\ UNCHANGED <<status_, statusNotifier_, completionNotifier_>>
       /\ ChangeStatusStep =>
            /\ statusNotifier_'
            /\ isFinishStatus(status_') => completionNotifier_'
            /\ UNCHANGED <<command_, commandNotifier_>>]_vars

\* C15 amended: each writer also clears the latch of the other notifier.
\* putCommand on a non-terminal worker sets the command, latches the command
\* notifier, clears the status notifier and leaves the status and the
\* completion latch unchanged; changeStatus sets the status, latches the
\* status notifier (and the completion notifier when the new status is
\* terminal), clears the command notifier and leaves the command unchanged
\* (and the completion latch when the new status is not terminal).
C15_WritersFrame ==
    [][/\ PutCommandStep =>
            /\ command_' = CommandOf(cop')
            /\ commandNotifier_'
            /\ ~statusNotifier_'
            /\ UNCHANGED <<status_, completionNotifier_, result>>
       /\ ChangeStatusStep =>
            /\ statusNotifier_'
            /\ ~commandNotifier_'
            /\ completionNotifier_' =
                   (isFinishStatus(status_') \/ completionNotifier_)
            /\ UNCHANGED <<command_, result>>]_vars

\* resume() after the worker became Paused: changeStatus(Paused) had
\* latched the status notifier and cleared the command notifier, the
\* putCommand(Run) latched the command notifier and cleared the other.
C15_Witness ==
    /\ status_ = "Paused"
    /\ wpc = "pause_wait"
    /\ prevOp = "pause"
    /\ cop = "resume"
    /\ command_ = "Run"
    /\ commandNotifier_
    /\ ~statusNotifier_
    /\ ~completionNotifier_

\* C16: the completion notifier is latched exactly when the status is
\* terminal, and stays latched; so waitForCompletion returns true only if
\* the status is terminal, returns true whenever it is called without a
\* deadline or after the status became terminal, and returns true again on
\* every later call.
C16_CompletionLatch ==
    /\ [](completionNotifier_ <=> isFinishStatus(status_))
    /\ [][completionNotifier_ => completionNotifier_']_vars
    /\ [](cpc \in {"get_ret", "wait_ret"} =>
            /\ notified => isFinishStatus(status_)
            /\ (~ctimed \/ isFinishStatus(entryStatus)) => notified)

C16_Witness ==
    /\ prevOp = "wait"
    /\ cop = "get"
    /\ ctimed
    /\ cpc = "get_ret"
    /\ notified
    /\ completionNotifier_
    /\ status_ = "Canceled"

\* The callable goes on past a safe point (a hook tick or an interruption
\* point) without reacting to the command.
PassesSafePoint == wpc = "call" /\ wpc' = "call" /\ ip' = ip + 1

\* C17 as stated: an interruption point applies the protocol of the hook
\* tick, so a worker goes on past a safe point of either kind only when the
\* command is Run (with Cancel it becomes Canceled, with Pause Paused).
C17_SafePointsAlike == [][PassesSafePoint => command_ = "Run"]_vars

\* C17 amended: a hook tick applies the whole protocol (Run: go on; Cancel:
\* Canceled and unwind; Pause: Paused, then blocked until the command read
\* is Run or Cancel); an interruption point only acts on Cancel (Canceled
\* and unwind) and goes on with Run and with Pause alike.
C17_InterruptionPointCancelOnly ==
    /\ [][PassesSafePoint => command_ # "Cancel"]_vars
    /\ [][(PassesSafePoint /\ command_ = "Pause") => ipCmd' = "Pause"]_vars
    /\ [][(wpc = "call" /\ wpc' \in {"hook_cancel", "ip_cancel"}) =>
             command_ = "Cancel"]_vars
    /\ [][(wpc = "call" /\ wpc' = "hook_pause") => command_ = "Pause"]_vars
    /\ [][(wpc \in {"hook_cancel", "ip_cancel"} /\ wpc' # wpc) =>
             (status_' = "Canceled" /\ wpc' = "thrown")]_vars
    /\ [][(wpc = "hook_pause" /\ wpc' # wpc) =>
             (status_' = "Paused" /\ wpc' = "pause_wait")]_vars
    /\ [][(status_ = "Paused" /\ status_' # "Paused") =>
             \/ status_' = "Running" /\ cmd = "Run"
             \/ status_' = "Canceled" /\ cmd = "Cancel"]_vars

\* The worker went past an interruption point while the command was Pause
\* and completed without having been Paused.
C17_Witness ==
    /\ ipCmd = "Pause"
    /\ ~everPaused
    /\ command_ = "Pause"
    /\ status_ = "Completed"
    /\ wpc = "exited"

\* C18: results are published before completion can be observed: whenever
\* the status is Completed the result list holds every return value of the
\* callable in call order, the list is never modified once the status is
\* terminal, and a get() that observes Completed returns those values.
C18_ResultsBeforeCompleted ==
    /\ [](status_ = "Completed" => result = function.vals)
    /\ [][isFinishStatus(status_) => result' = result]_vars
    /\ []((cop = "get" /\ cpc = "idle" /\ notified /\ status_ = "Completed")
            => ret = function.vals)

C18_Witness ==
    /\ status_ = "Completed"
    /\ function.vals = <<"v1", "v2">>
    /\ prevOp = "status"
    /\ cop = "get"
    /\ ctimed
    /\ cpc = "idle"
    /\ notified
    /\ ret = function.vals

\* The scope guard of runThread has run: the argument storage is cleared
\* and the worker's interpreter is destroyed.
TornDown == ~arguments /\ ~luaAlive

\* C19 as stated: the worker's teardown precedes every terminal status: in
\* every state in which the status is Completed, Failed or Canceled, the
\* argument storage is cleared and the execution context destroyed.
C19_TeardownBeforeTerminal == isFinishStatus(status_) => TornDown

\* C19 amended: the teardown precedes the statuses Completed and Failed,
\* and it is over when the worker has exited; the status Canceled is set at
\* the hook or interruption point, before the unwinding that tears down, so
\* Canceled without teardown is a worker that is unwinding.
C19_TeardownBeforeCompletedFailed ==
    /\ status_ \in {"Completed", "Failed"} => TornDown
    /\ wpc = "exited" => (TornDown /\ isFinishStatus(status_))
    /\ (status_ = "Canceled" /\ ~TornDown) =>
          (wpc = "thrown" /\ arguments /\ luaAlive)

\* status() returned "canceled" while the worker is still unwinding.
C19_Witness ==
    /\ status_ = "Canceled"
    /\ wpc = "thrown"
    /\ arguments
    /\ luaAlive
    /\ cop = "status"
    /\ ret = <<"canceled">>

\* The positions of the worker inside luaHook.
InLuaHook ==
    {"hook_cancel", "hook_pause", "pause_wait", "pause_read", "pause_run",
     "pause_cancel"}

\* C20: the assertion at the top of luaHook holds on every invocation: the
\* thisThreadHandle of the invoking thread is not null, whether the thread
\* is the worker at a hook tick or the module's thread in yield() or in
\* sleep() without a duration.
C20_HookHasHandle ==
    /\ wpc \in InLuaHook => thisThreadHandle["worker"] # "nullptr"
    /\ cpc = "yield_hook" => thisThreadHandle["main"] # "nullptr"

=============================================================================
